---- MODULE Spec2Model ----
(***************************************************************************)
(* Model of drm-fb (src/main.c): a splash program that enumerates the      *)
(* connectors of /dev/dri/card0, allocates one CRTC per connected          *)
(* connector, creates a dumb framebuffer, fills it from stdin, performs     *)
(* the modeset, daemonizes, waits for a termination signal, and then tears  *)
(* the framebuffers down and restores the saved CRTC configurations.        *)
(*                                                                          *)
(* The DRM device, stdin, malloc and fork are the environment: each call    *)
(* returns a result chosen by the environment (success or failure).         *)
(* Abstractions: a surface's size is the device-reported create.size in     *)
(* abstract bytes (width, height and stride are not modelled); a mapping's  *)
(* address is the token of the handle it maps; display modes are tokens.    *)
(* A release request (munmap, RmFB, DESTROY_DUMB) succeeds exactly when the *)
(* object it names is live.  A store through the pointer mmap returns on    *)
(* failure, MAP_FAILED, ends the process by SIGSEGV (pc = "crashed").       *)
(***************************************************************************)
EXTENDS Integers, Sequences, FiniteSets, TLC

\* ---------------------------------------------------------------- bounds
NumConnectors == 2      \* res->count_connectors
NumCrtcs == 2           \* res->count_crtcs
MaxEncoders == 2        \* largest conn->count_encoders
MaxSize == 2            \* largest create.size reported by the device
MaxStdin == 3           \* largest number of bytes available on stdin

\* ------------------------------------------------------- program constants
FILL == 255             \* memset(fb->data, 0xff, fb->size)
MAP_FAILED == -1        \* what mmap returns on failure: (void *) -1
NULL == 0               \* the null pointer / "no CRTC" value
UNINIT == -2            \* a field of a malloc'ed struct connector never written

\* The k-th byte of the raw image on standard input.
ImageByte(k) == k

\* Object ids the device hands out.
CrtcId(i) == 31 + i             \* res->crtcs[i]
ConnectorId(i) == 101 + i       \* res->connectors[i]
ConnIds == {ConnectorId(i) : i \in 0..(NumConnectors - 1)}
Slots == 0..(NumCrtcs - 1)
CrtcIds == {CrtcId(s) : s \in Slots}
\* At most one dumb buffer per connector is live; a mapping's address is the
\* token of the handle it maps.
Addrs == 1..NumConnectors

Min(S) == CHOOSE n \in S : \A m \in S : n <= m

\* The idr of the device: the lowest id that is not live.
NewHandle(live) == Min({n \in 1..(Cardinality(live) + 1) : n \notin live})
NewFbId(live) == Min({n \in 41..(41 + Cardinality(live)) : n \notin live})

\* --------------------------------------------------------------- bit masks
Bit(i) == 2 ^ i                                   \* 1 << i
TestBit(mask, i) == (mask \div Bit(i)) % 2 = 1    \* (mask & bit) != 0
SetBit_replace(mask, i) == Bit(i)                 \* mask = bit
SetBit(mask, i) == IF TestBit(mask, i) THEN mask ELSE mask + Bit(i)  \* mask |= bit
Masks == 0..(Bit(NumCrtcs) - 1)

\* An encoder as drmModeGetEncoder returns it: [null |-> TRUE] when the call
\* fails, else its possible_crtcs mask.
Encoders == {[null |-> TRUE, possible_crtcs |-> 0]}
              \cup {[null |-> FALSE, possible_crtcs |-> m] : m \in Masks}
EncoderLists == UNION {[1..n -> Encoders] : n \in 0..MaxEncoders}

\* ------------------------------------------------------------ CRTC records
\* drmModeCrtc as drmModeGetCrtc returns it (the fields the program uses).
IdleCrtc(c) == [crtc_id |-> c, buffer_id |-> 0, x |-> 0, y |-> 0,
                mode_valid |-> FALSE, mode |-> "none"]
PriorCrtc(c) == [crtc_id |-> c, buffer_id |-> 40, x |-> 1, y |-> 1,
                 mode_valid |-> TRUE, mode |-> "prior"]

\* conn->saved: never written, NULL, or a pointer to a drmModeCrtc.
SavedUninit == [state |-> "uninit", crtc |-> IdleCrtc(0)]
SavedNull == [state |-> "null", crtc |-> IdleCrtc(0)]
SavedPtr(c) == [state |-> "ptr", crtc |-> c]

\* struct dumb_framebuffer and struct connector right after malloc.
FbUninit == [id |-> UNINIT, handle |-> UNINIT, size |-> UNINIT, data |-> UNINIT]
NewConnector(id, connected) ==
    [id |-> id, connected |-> connected, saved |-> SavedUninit,
     crtc_id |-> UNINIT, mode |-> "uninit", fb |-> FbUninit]

\* One entry of the record of the requests issued to the device and the
\* system (conn is 0 for a request that concerns no connector).
Op(op, conn, arg, ok) == [op |-> op, conn |-> conn, arg |-> arg, ok |-> ok]

VARIABLES
    pc,            \* position of main
    keep_running,  \* static volatile sig_atomic_t keep_running
    i,             \* index of the enumeration loop
    taken_crtcs,   \* bitmask of the CRTC slots handed out
    conn_list,     \* the linked list, head first
    conn,          \* cursor of the cleanup loop: index into conn_list
    total_read, ptr, remaining,   \* locals of load_splash_image_from_stdin
    stdin,         \* bytes not yet read from standard input
    dumbs,         \* device: live dumb-buffer handles
    fbs,           \* device: live framebuffer (scanout object) ids
    maps,          \* process: addresses of the live mappings
    mem,           \* process: bytes at each mapping address
    crtcs,         \* device: configuration of each CRTC, by id
    ops,           \* device requests issued so far, in order
    exit_status,   \* <<>> while running, <<n>> after exit(n) / return n
    parent_status, \* exit status of the process that called fork
    image,         \* observation only: the whole of standard input at start
    info           \* observation only: per connector, what the run did

vars == <<pc, keep_running, i, taken_crtcs, conn_list, conn,
          total_read, ptr, remaining, stdin, dumbs, fbs, maps, mem, crtcs,
          ops, exit_status, parent_status, image, info>>

InfoNone == [tried |-> FALSE, starved |-> FALSE, created |-> "none",
             source |-> <<>>, loaded |-> "none"]

Init ==
    /\ pc = "start"
    /\ keep_running = 1
    /\ i = 0
    /\ taken_crtcs = 0
    /\ conn_list = <<>>
    /\ conn = 0
    /\ total_read = 0
    /\ ptr = 0
    /\ remaining = 0
    /\ \E n \in 0..MaxStdin : stdin = [k \in 1..n |-> ImageByte(k)]
    /\ dumbs = {}
    /\ fbs = {}
    /\ maps = {}
    /\ mem = [a \in Addrs |-> <<>>]
    /\ \E prior \in SUBSET Slots :
         crtcs = [c \in CrtcIds |->
                    IF \E s \in prior : c = CrtcId(s) THEN PriorCrtc(c) ELSE IdleCrtc(c)]
    /\ ops = <<>>
    /\ exit_status = <<>>
    /\ parent_status = <<>>
    /\ image = stdin
    /\ info = [c \in ConnIds |-> InfoNone]

\* ------------------------------------------------------------- find_crtc
NoSlot == NumCrtcs      \* the inner loop ran off the end: no slot found

\* scan_crtcs without the "already taken" test.
RECURSIVE scan_crtcs_ignore_taken(_, _, _)
scan_crtcs_ignore_taken(possible_crtcs, taken, s) ==
    IF s >= NumCrtcs THEN NoSlot
    ELSE IF ~TestBit(possible_crtcs, s)
         THEN scan_crtcs_ignore_taken(possible_crtcs, taken, s + 1)
    ELSE s

\* scan_crtcs without the "not compatible" test.
RECURSIVE scan_crtcs_ignore_possible(_, _, _)
scan_crtcs_ignore_possible(possible_crtcs, taken, s) ==
    IF s >= NumCrtcs THEN NoSlot
    ELSE IF TestBit(taken, s)
         THEN scan_crtcs_ignore_possible(possible_crtcs, taken, s + 1)
    ELSE s

\* The inner loop of find_crtc: the first slot at index >= s that the encoder
\* can drive and that is not taken.
RECURSIVE scan_crtcs(_, _, _)
scan_crtcs(possible_crtcs, taken, s) ==
    IF s >= NumCrtcs THEN NoSlot
    ELSE IF ~TestBit(possible_crtcs, s) THEN scan_crtcs(possible_crtcs, taken, s + 1)
    ELSE IF TestBit(taken, s) THEN scan_crtcs(possible_crtcs, taken, s + 1)
    ELSE s

\* The outer loop of find_crtc, from encoder e on: the CRTC id returned (0 for
\* none) and *taken_crtcs afterwards.
RECURSIVE find_crtc_from(_, _, _)
find_crtc_from(encoders, taken, e) ==
    IF e > Len(encoders) THEN [crtc_id |-> 0, taken |-> taken]
    ELSE IF encoders[e].null THEN find_crtc_from(encoders, taken, e + 1)
    ELSE LET s == scan_crtcs(encoders[e].possible_crtcs, taken, 0)
         IN  IF s = NoSlot THEN find_crtc_from(encoders, taken, e + 1)
             ELSE [crtc_id |-> CrtcId(s), taken |-> SetBit(taken, s)]

\* find_crtc taking the lowest free slot any encoder of the list can drive,
\* whichever encoder comes first.
find_crtc_lowest_slot(encoders, taken) ==
    LET usable == {s \in Slots : \E e \in 1..Len(encoders) :
                      /\ ~encoders[e].null
                      /\ TestBit(encoders[e].possible_crtcs, s)
                      /\ ~TestBit(taken, s)}
    IN  IF usable = {} THEN [crtc_id |-> 0, taken |-> taken]
        ELSE [crtc_id |-> CrtcId(Min(usable)), taken |-> SetBit(taken, Min(usable))]

find_crtc(encoders, taken) == find_crtc_from(encoders, taken, 1)

\* Observation: an encoder of the list is compatible with a slot that is free.
HasFreeCompatible(encoders, taken) ==
    \E e \in 1..Len(encoders) : \E s \in Slots :
        /\ ~encoders[e].null
        /\ TestBit(encoders[e].possible_crtcs, s)
        /\ ~TestBit(taken, s)

\* ------------------------------------------------------------------ helpers
Alive == pc \notin {"start", "done", "exited", "crashed"}

\* The connector the enumeration loop is working on: the head of the list.
Cur == conn_list[1]

\* goto cleanup: drmModeFreeConnector and the loop's ++i.
NextConnector ==
    /\ i' = i + 1
    /\ pc' = "enumerate"

SetInfo(id, field, value) == [info EXCEPT ![id][field] = value]

\* ------------------------------------------------------------------- main
\* signal(SIGTERM / SIGINT / SIGHUP, signal_handler)
InstallHandlers ==
    /\ pc = "start"
    /\ pc' = "open"
    /\ UNCHANGED <<keep_running, i, taken_crtcs, conn_list, conn,
                   total_read, ptr, remaining, stdin, dumbs, fbs, maps, mem,
                   crtcs, ops, exit_status, parent_status, image, info>>

\* signal_handler flipping the flag instead of clearing it.
signal_handler_toggle ==
    /\ Alive
    /\ keep_running' = 1 - keep_running
    /\ UNCHANGED <<pc, i, taken_crtcs, conn_list, conn, total_read, ptr,
                   remaining, stdin, dumbs, fbs, maps, mem, crtcs, ops,
                   exit_status, parent_status, image, info>>

\* signal_handler, run asynchronously on delivery of a termination signal.
signal_handler ==
    /\ Alive
    /\ keep_running' = 0
    /\ UNCHANGED <<pc, i, taken_crtcs, conn_list, conn, total_read, ptr,
                   remaining, stdin, dumbs, fbs, maps, mem, crtcs, ops,
                   exit_status, parent_status, image, info>>

\* open("/dev/dri/card0")
OpenDevice ==
    /\ pc = "open"
    /\ \E ok \in BOOLEAN :
         /\ ops' = ops \o <<Op("open", 0, 0, ok)>>
         /\ IF ok THEN pc' = "getres" /\ exit_status' = exit_status
            ELSE pc' = "exited" /\ exit_status' = <<1>>
    /\ UNCHANGED <<keep_running, i, taken_crtcs, conn_list, conn,
                   total_read, ptr, remaining, stdin, dumbs, fbs, maps, mem,
                   crtcs, parent_status, image, info>>

\* drmModeGetResources, then conn_list = NULL, taken_crtcs = 0, i = 0
GetResources ==
    /\ pc = "getres"
    /\ \E ok \in BOOLEAN :
         /\ ops' = ops \o <<Op("GetResources", 0, 0, ok)>>
         /\ IF ok THEN pc' = "enumerate" /\ exit_status' = exit_status
            ELSE pc' = "exited" /\ exit_status' = <<1>>
    /\ i' = 0
    /\ taken_crtcs' = 0
    /\ conn_list' = <<>>
    /\ UNCHANGED <<keep_running, conn, total_read, ptr, remaining,
                   stdin, dumbs, fbs, maps, mem, crtcs, parent_status,
                   image, info>>

\* One pass of the enumeration loop up to the call of create_fb:
\* drmModeGetConnector, malloc, the connected / count_modes tests, find_crtc.
EnumerateConnector ==
    /\ pc = "enumerate"
    /\ i < NumConnectors
    /\ LET id == ConnectorId(i)
       IN
       \E got \in BOOLEAN, alloc \in BOOLEAN, connection \in BOOLEAN,
          count_modes \in 0..1 :
         LET c0 == NewConnector(id, connection)
         IN
         IF ~got \/ ~alloc
         THEN \* drmModeGetConnector or malloc failed: no record is linked
              /\ NextConnector
              /\ UNCHANGED <<conn_list, taken_crtcs, info>>
         ELSE IF ~connection
         THEN /\ conn_list' = <<c0>> \o conn_list
              /\ NextConnector
              /\ UNCHANGED <<taken_crtcs, info>>
         ELSE IF count_modes = 0
         THEN /\ conn_list' = <<[c0 EXCEPT !.connected = FALSE]>> \o conn_list
              /\ NextConnector
              /\ UNCHANGED <<taken_crtcs, info>>
         ELSE \E encoders \in EncoderLists :
              LET r == find_crtc(encoders, taken_crtcs)
              IN
              /\ taken_crtcs' = r.taken
              /\ info' = [info EXCEPT ![id].tried = TRUE,
                            ![id].starved = ~HasFreeCompatible(encoders, taken_crtcs)]
              /\ IF r.crtc_id = 0
                 THEN /\ conn_list' = <<[c0 EXCEPT !.crtc_id = 0,
                                                   !.connected = FALSE]>> \o conn_list
                      /\ NextConnector
                 ELSE /\ conn_list' = <<[c0 EXCEPT !.crtc_id = r.crtc_id,
                                                   !.mode = "preferred"]>> \o conn_list
                      /\ i' = i
                      /\ pc' = "create_fb"
    /\ UNCHANGED <<keep_running, conn, total_read, ptr, remaining,
                   stdin, dumbs, fbs, maps, mem, crtcs, ops, exit_status,
                   parent_status, image>>

\* ------------------------------------------------------------ device calls
\* A release request succeeds exactly when the object it names is live
\* (the device refuses an id or handle it does not know); munmap of a range
\* that holds no mapping is not an error.
DevRmFB(live, id) ==
    [ok |-> id \in live, live |-> live \ {id}]

DevDestroyDumb(live, handle) ==
    [ok |-> handle \in live, live |-> live \ {handle}]

DevMunmap(live, addr) ==
    [ok |-> TRUE, live |-> live \ {addr}]

\* ------------------------------------------------------------- create_fb
\* prefill with zero bytes instead of 0xff.
prefill_zero(size) == [k \in 1..size |-> 0]

\* memset(fb->data, 0xff, fb->size)
prefill(size) == [k \in 1..size |-> FILL]

\* if (!fb->data): the test create_fb applies to what mmap returned.
mmap_failed(data) == data = NULL

\* create_fb as main calls it, with main's handling of a false return.
\* The device chooses the result of each request.
CreateFb ==
    /\ pc = "create_fb"
    /\ \E created \in BOOLEAN, size \in 1..MaxSize, added \in BOOLEAN,
          mapped \in BOOLEAN, mmapped \in BOOLEAN :
         LET id == Cur.id
             h  == NewHandle(dumbs)
             f  == NewFbId(fbs)
             data == IF mmapped THEN h ELSE MAP_FAILED
             fb1 == [Cur.fb EXCEPT !.handle = h, !.size = size]
             fb2 == [fb1 EXCEPT !.id = f]
             fb3 == [fb2 EXCEPT !.data = data]
             rmfb == DevRmFB(fbs \cup {f}, f)
             dumb == DevDestroyDumb(dumbs \cup {h}, h)
             o1 == <<Op("CREATE_DUMB", id, h, created)>>
             o2 == <<Op("AddFB2", id, f, added)>>
             o3 == <<Op("MAP_DUMB", id, h, mapped)>>
             o4 == <<Op("mmap", id, data, mmapped)>>
             oe == <<Op("DESTROY_DUMB", id, h, dumb.ok)>>
             of == <<Op("RmFB", id, f, rmfb.ok)>>
             Fail(fb, log, newfbs, newdumbs) ==
                 /\ conn_list' = [conn_list EXCEPT ![1].fb = fb,
                                                   ![1].connected = FALSE]
                 /\ ops' = ops \o log
                 /\ fbs' = newfbs
                 /\ dumbs' = newdumbs
                 /\ info' = SetInfo(id, "created", "false")
                 /\ NextConnector
                 /\ UNCHANGED <<maps, mem>>
         IN
         IF ~created
         THEN Fail(Cur.fb, [o1 EXCEPT ![1].arg = 0], fbs, dumbs)
         ELSE IF ~added
         THEN \* goto error_dumb
              Fail(fb1, o1 \o [o2 EXCEPT ![1].arg = 0] \o oe, fbs, dumb.live)
         ELSE IF ~mapped
         THEN \* goto error_fb
              Fail(fb2, o1 \o o2 \o o3 \o of \o oe, rmfb.live, dumb.live)
         ELSE IF mmap_failed(data)
         THEN \* goto error_fb
              Fail(fb3, o1 \o o2 \o o3 \o o4 \o of \o oe, rmfb.live, dumb.live)
         ELSE IF data = MAP_FAILED
         THEN \* memset through (void *) -1: the process dies of SIGSEGV
              /\ conn_list' = [conn_list EXCEPT ![1].fb = fb3]
              /\ ops' = ops \o o1 \o o2 \o o3 \o o4
              /\ fbs' = fbs \cup {f}
              /\ dumbs' = dumbs \cup {h}
              /\ pc' = "crashed"
              /\ UNCHANGED <<maps, mem, info, i>>
         ELSE /\ conn_list' = [conn_list EXCEPT ![1].fb = fb3]
              /\ ops' = ops \o o1 \o o2 \o o3 \o o4
              /\ fbs' = fbs \cup {f}
              /\ dumbs' = dumbs \cup {h}
              /\ maps' = maps \cup {data}
              /\ mem' = [mem EXCEPT ![data] = prefill(size)]
              /\ info' = SetInfo(id, "created", "true")
              /\ pc' = "load"
              /\ i' = i
    /\ UNCHANGED <<keep_running, taken_crtcs, conn, total_read, ptr,
                   remaining, stdin, crtcs, exit_status, parent_status, image>>

\* ------------------------------------------- load_splash_image_from_stdin
Max2(a, b) == IF a >= b THEN a ELSE b
Min2(a, b) == IF a <= b THEN a ELSE b

\* The bytes of a mapping after `bytes` are stored at offset off.
Store(m, off, bytes) ==
    [k \in 1..Max2(Len(m), off + Len(bytes)) |->
        IF k > off /\ k <= off + Len(bytes) THEN bytes[k - off] ELSE m[k]]

\* read_count asking for the whole buffer size on every pass.
read_count_whole(size, left) == size

\* The count the loop passes to read(STDIN_FILENO, ptr, remaining).
read_count(size, left) == left

\* What read can return for a request of `count` bytes: -1 on error, 0 at end
\* of input, else any number of bytes up to the count and what is available.
ReadResults(count, avail) ==
    {-1} \cup (IF Len(avail) = 0 THEN {0} ELSE 1..Min2(count, Len(avail)))

\* total_read = 0, ptr = fb->data, remaining = fb->size
LoadBegin ==
    /\ pc = "load"
    /\ total_read' = 0
    /\ ptr' = 0
    /\ remaining' = Cur.fb.size
    /\ info' = SetInfo(Cur.id, "source", stdin)
    /\ pc' = "read"
    /\ UNCHANGED <<keep_running, i, taken_crtcs, conn_list, conn,
                   stdin, dumbs, fbs, maps, mem, crtcs, ops, exit_status,
                   parent_status, image>>

\* LoadRead leaving the output connected when the read fails.
LoadRead_keep_connected ==
    /\ pc = "read"
    /\ LET id == Cur.id
           ReturnTrue ==
               /\ info' = SetInfo(id, "loaded", "true")
               /\ pc' = "modeset"
               /\ UNCHANGED <<total_read, ptr, remaining, stdin, mem, conn_list, i>>
       IN
       IF remaining > 0
       THEN \E n \in ReadResults(read_count(Cur.fb.size, remaining), stdin) :
              IF n < 0
              THEN /\ info' = SetInfo(id, "loaded", "false")
                   /\ NextConnector
                   /\ UNCHANGED <<total_read, ptr, remaining, stdin, mem, conn_list>>
              ELSE IF n = 0
              THEN ReturnTrue
              ELSE /\ mem' = [mem EXCEPT ![Cur.fb.data] =
                                 Store(@, ptr, SubSeq(stdin, 1, n))]
                   /\ stdin' = SubSeq(stdin, n + 1, Len(stdin))
                   /\ total_read' = total_read + n
                   /\ ptr' = ptr + n
                   /\ remaining' = remaining - n
                   /\ UNCHANGED <<info, conn_list, pc, i>>
       ELSE ReturnTrue
    /\ UNCHANGED <<keep_running, taken_crtcs, conn, dumbs, fbs, maps,
                   crtcs, ops, exit_status, parent_status, image>>

\* One test of while (remaining > 0) and, when it passes, one read; when the
\* loop ends, the return to main and main's handling of the result.
LoadRead ==
    /\ pc = "read"
    /\ LET id == Cur.id
           ReturnTrue ==
               /\ info' = SetInfo(id, "loaded", "true")
               /\ pc' = "modeset"
               /\ UNCHANGED <<total_read, ptr, remaining, stdin, mem, conn_list, i>>
       IN
       IF remaining > 0
       THEN \E n \in ReadResults(read_count(Cur.fb.size, remaining), stdin) :
              IF n < 0
              THEN /\ info' = SetInfo(id, "loaded", "false")
                   /\ conn_list' = [conn_list EXCEPT ![1].connected = FALSE]
                   /\ NextConnector
                   /\ UNCHANGED <<total_read, ptr, remaining, stdin, mem>>
              ELSE IF n = 0
              THEN ReturnTrue
              ELSE /\ mem' = [mem EXCEPT ![Cur.fb.data] =
                                 Store(@, ptr, SubSeq(stdin, 1, n))]
                   /\ stdin' = SubSeq(stdin, n + 1, Len(stdin))
                   /\ total_read' = total_read + n
                   /\ ptr' = ptr + n
                   /\ remaining' = remaining - n
                   /\ UNCHANGED <<info, conn_list, pc, i>>
       ELSE ReturnTrue
    /\ UNCHANGED <<keep_running, taken_crtcs, conn, dumbs, fbs, maps,
                   crtcs, ops, exit_status, parent_status, image>>

\* ----------------------------------------------------------------- modeset
\* The configuration drmModeSetCrtc(crtc_id, fb.id, 0, 0, &conn->id, 1, &mode)
\* asks for.
modeset_request(c) ==
    [crtc_id |-> c.crtc_id, buffer_id |-> c.fb.id, x |-> 0, y |-> 0,
     mode_valid |-> TRUE, mode |-> c.mode]

\* Modeset marking the output connected=false when the modeset is refused.
Modeset_rollback ==
    /\ pc = "modeset"
    /\ \E snap \in BOOLEAN, ok \in BOOLEAN :
         LET c == Cur
             req == modeset_request(c)
         IN
         /\ conn_list' = [conn_list EXCEPT
                             ![1].saved = IF snap THEN SavedPtr(crtcs[c.crtc_id])
                                          ELSE SavedNull,
                             ![1].connected = ok]
         /\ ops' = ops \o <<Op("GetCrtc", c.id, c.crtc_id, snap),
                            Op("SetCrtc", c.id, req, ok)>>
         /\ crtcs' = IF ok THEN [crtcs EXCEPT ![req.crtc_id] = req] ELSE crtcs
    /\ NextConnector
    /\ UNCHANGED <<keep_running, taken_crtcs, conn, total_read, ptr,
                   remaining, stdin, dumbs, fbs, maps, mem, exit_status,
                   parent_status, image, info>>

\* conn->saved = drmModeGetCrtc(...); drmModeSetCrtc(...); then the next
\* connector. The snapshot may fail (NULL) and the modeset may be refused.
Modeset ==
    /\ pc = "modeset"
    /\ \E snap \in BOOLEAN, ok \in BOOLEAN :
         LET c == Cur
             req == modeset_request(c)
         IN
         /\ conn_list' = [conn_list EXCEPT ![1].saved =
                             IF snap THEN SavedPtr(crtcs[c.crtc_id]) ELSE SavedNull]
         /\ ops' = ops \o <<Op("GetCrtc", c.id, c.crtc_id, snap),
                            Op("SetCrtc", c.id, req, ok)>>
         /\ crtcs' = IF ok THEN [crtcs EXCEPT ![req.crtc_id] = req] ELSE crtcs
    /\ NextConnector
    /\ UNCHANGED <<keep_running, taken_crtcs, conn, total_read, ptr,
                   remaining, stdin, dumbs, fbs, maps, mem, exit_status,
                   parent_status, image, info>>

\* The enumeration loop ends: drmModeFreeResources, "Daemonizing...".
EndEnumeration ==
    /\ pc = "enumerate"
    /\ i >= NumConnectors
    /\ pc' = "daemonize"
    /\ UNCHANGED <<keep_running, i, taken_crtcs, conn_list, conn,
                   total_read, ptr, remaining, stdin, dumbs, fbs, maps, mem,
                   crtcs, ops, exit_status, parent_status, image, info>>

\* daemonize: fork; the parent exits 0, the child goes on with its standard
\* streams on /dev/null; a failed fork exits 1.
daemonize ==
    /\ pc = "daemonize"
    /\ \E forked \in BOOLEAN :
         /\ ops' = ops \o <<Op("fork", 0, 0, forked)>>
         /\ IF forked
            THEN /\ parent_status' = <<0>>
                 /\ stdin' = <<>>
                 /\ pc' = "wait"
                 /\ exit_status' = exit_status
            ELSE /\ exit_status' = <<1>>
                 /\ pc' = "exited"
                 /\ UNCHANGED <<parent_status, stdin>>
    /\ UNCHANGED <<keep_running, i, taken_crtcs, conn_list, conn,
                   total_read, ptr, remaining, dumbs, fbs, maps, mem, crtcs,
                   image, info>>

\* while (keep_running): the test; on exit conn = conn_list.
WaitLoop ==
    /\ pc = "wait"
    /\ IF keep_running # 0
       THEN pc' = "sleep" /\ conn' = conn
       ELSE pc' = "cleanup" /\ conn' = 1
    /\ UNCHANGED <<keep_running, i, taken_crtcs, conn_list,
                   total_read, ptr, remaining, stdin, dumbs, fbs, maps, mem,
                   crtcs, ops, exit_status, parent_status, image, info>>

\* sleep(1)
Sleep ==
    /\ pc = "sleep"
    /\ pc' = "wait"
    /\ UNCHANGED <<keep_running, i, taken_crtcs, conn_list, conn,
                   total_read, ptr, remaining, stdin, dumbs, fbs, maps, mem,
                   crtcs, ops, exit_status, parent_status, image, info>>

\* ----------------------------------------------------------------- cleanup
\* destroy_fb issuing its three requests in the opposite order.
destroy_fb_reordered(fb, id, dev) ==
    LET um == DevMunmap(dev.maps, fb.data)
        rm == DevRmFB(dev.fbs, fb.id)
        dd == DevDestroyDumb(dev.dumbs, fb.handle)
    IN  [maps |-> um.live, fbs |-> rm.live, dumbs |-> dd.live,
         ops |-> <<Op("DESTROY_DUMB", id, fb.handle, dd.ok),
                    Op("RmFB", id, fb.id, rm.ok),
                    Op("munmap", id, fb.data, um.ok)>>]

\* munmap, drmModeRmFB, DRM_IOCTL_MODE_DESTROY_DUMB on one framebuffer: the
\* device state afterwards and the requests issued.
destroy_fb(fb, id, dev) ==
    LET um == DevMunmap(dev.maps, fb.data)
        rm == DevRmFB(dev.fbs, fb.id)
        dd == DevDestroyDumb(dev.dumbs, fb.handle)
    IN  [maps |-> um.live, fbs |-> rm.live, dumbs |-> dd.live,
         ops |-> <<Op("munmap", id, fb.data, um.ok),
                    Op("RmFB", id, fb.id, rm.ok),
                    Op("DESTROY_DUMB", id, fb.handle, dd.ok)>>]

\* restore_request with the offsets of the splash modeset (0, 0) instead of
\* the saved ones.
restore_request_origin(crtc) ==
    [crtc_id |-> crtc.crtc_id, buffer_id |-> crtc.buffer_id,
     x |-> 0, y |-> 0, mode_valid |-> TRUE, mode |-> crtc.mode]

\* The configuration the restoring drmModeSetCrtc(crtc->crtc_id,
\* crtc->buffer_id, crtc->x, crtc->y, &conn->id, 1, &crtc->mode) asks for.
restore_request(crtc) ==
    [crtc_id |-> crtc.crtc_id, buffer_id |-> crtc.buffer_id,
     x |-> crtc.x, y |-> crtc.y, mode_valid |-> TRUE, mode |-> crtc.mode]

\* CleanupConnector without the test of conn->connected.
CleanupConnector_all ==
    /\ pc = "cleanup"
    /\ conn <= Len(conn_list)
    /\ LET c == conn_list[conn]
       IN
       \E ok \in BOOLEAN :
          LET d == destroy_fb(c.fb, c.id,
                              [maps |-> maps, fbs |-> fbs, dumbs |-> dumbs])
              req == restore_request(c.saved.crtc)
          IN
          /\ maps' = d.maps
          /\ fbs' = d.fbs
          /\ dumbs' = d.dumbs
          /\ IF c.saved.state # "null"
             THEN /\ ops' = ops \o d.ops \o <<Op("RestoreCrtc", c.id, req, ok)>>
                  /\ crtcs' = IF ok /\ req.crtc_id \in CrtcIds
                              THEN [crtcs EXCEPT ![req.crtc_id] = req]
                              ELSE crtcs
             ELSE /\ ops' = ops \o d.ops
                  /\ crtcs' = crtcs
    /\ conn' = conn + 1
    /\ UNCHANGED <<pc, keep_running, i, taken_crtcs, conn_list,
                   total_read, ptr, remaining, stdin, mem, exit_status,
                   parent_status, image, info>>

\* One pass of while (conn): tear down and restore if connected, free, next.
\* free(conn) is not modelled: the records stay in conn_list, where the
\* properties read them; the program reads no record again once conn moved on.
CleanupConnector ==
    /\ pc = "cleanup"
    /\ conn <= Len(conn_list)
    /\ LET c == conn_list[conn]
       IN
       IF c.connected
       THEN \E ok \in BOOLEAN :
              LET d == destroy_fb(c.fb, c.id,
                                  [maps |-> maps, fbs |-> fbs, dumbs |-> dumbs])
                  req == restore_request(c.saved.crtc)
              IN
              /\ maps' = d.maps
              /\ fbs' = d.fbs
              /\ dumbs' = d.dumbs
              /\ IF c.saved.state # "null"
                 THEN /\ ops' = ops \o d.ops \o <<Op("RestoreCrtc", c.id, req, ok)>>
                      /\ crtcs' = IF ok /\ req.crtc_id \in CrtcIds
                                  THEN [crtcs EXCEPT ![req.crtc_id] = req]
                                  ELSE crtcs
                 ELSE /\ ops' = ops \o d.ops
                      /\ crtcs' = crtcs
       ELSE UNCHANGED <<maps, fbs, dumbs, ops, crtcs>>
    /\ conn' = conn + 1
    /\ UNCHANGED <<pc, keep_running, i, taken_crtcs, conn_list,
                   total_read, ptr, remaining, stdin, mem, exit_status,
                   parent_status, image, info>>

\* Exit returning 1 when some output was marked connected=false.
Exit_status_from_outputs ==
    /\ pc = "cleanup"
    /\ conn > Len(conn_list)
    /\ pc' = "done"
    /\ exit_status' = IF \E k \in 1..Len(conn_list) : ~conn_list[k].connected
                      THEN <<1>> ELSE <<0>>
    /\ UNCHANGED <<keep_running, i, taken_crtcs, conn_list, conn,
                   total_read, ptr, remaining, stdin, dumbs, fbs, maps, mem,
                   crtcs, ops, parent_status, image, info>>

\* The list is exhausted: close(drm_fd); return 0.
Exit ==
    /\ pc = "cleanup"
    /\ conn > Len(conn_list)
    /\ pc' = "done"
    /\ exit_status' = <<0>>
    /\ UNCHANGED <<keep_running, i, taken_crtcs, conn_list, conn,
                   total_read, ptr, remaining, stdin, dumbs, fbs, maps, mem,
                   crtcs, ops, parent_status, image, info>>

Next ==
    \/ InstallHandlers
    \/ signal_handler
    \/ OpenDevice
    \/ GetResources
    \/ EnumerateConnector
    \/ CreateFb
    \/ LoadBegin
    \/ LoadRead
    \/ Modeset
    \/ EndEnumeration
    \/ daemonize
    \/ WaitLoop
    \/ Sleep
    \/ CleanupConnector
    \/ Exit

Spec == Init /\ [][Next]_vars

\* ------------------------------------------------- the teardown sequence
\* The teardown sequence of the cleanup loop taken on its own: a live
\* surface as create_fb leaves it, among other live objects of the device,
\* and the sequence applied to it up to MaxDestroys times (i counts them).
MaxDestroys == 2

InitDestroy ==
    /\ pc = "destroy"
    /\ keep_running = 0
    /\ i = 0
    /\ taken_crtcs = Bit(0)
    /\ conn = 1
    /\ total_read = 0
    /\ ptr = 0
    /\ remaining = 0
    /\ stdin = <<>>
    /\ crtcs = [c \in CrtcIds |-> IdleCrtc(c)]
    /\ ops = <<>>
    /\ exit_status = <<>>
    /\ parent_status = <<0>>
    /\ image = <<>>
    /\ \E h \in Addrs, f \in 41..(40 + NumConnectors), size \in 1..MaxSize :
       \E od \in SUBSET (Addrs \ {h}), om \in SUBSET (Addrs \ {h}),
          ofb \in SUBSET ((41..(40 + NumConnectors)) \ {f}) :
         /\ conn_list = <<[NewConnector(ConnectorId(0), TRUE) EXCEPT
                             !.crtc_id = CrtcId(0), !.mode = "preferred",
                             !.saved = SavedNull,
                             !.fb = [id |-> f, handle |-> h, size |-> size,
                                     data |-> h]]>>
         /\ dumbs = {h} \cup od
         /\ fbs = {f} \cup ofb
         /\ maps = {h} \cup om
         /\ mem = [a \in Addrs |-> IF a = h \/ a \in om THEN prefill(size) ELSE <<>>]
    /\ info = [c \in ConnIds |->
                 IF c = ConnectorId(0)
                 THEN [InfoNone EXCEPT !.tried = TRUE, !.created = "true",
                                        !.loaded = "true"]
                 ELSE InfoNone]

\* munmap, drmModeRmFB, DESTROY_DUMB on the surface, once more.
DestroySurface ==
    /\ pc = "destroy"
    /\ i < MaxDestroys
    /\ LET c == conn_list[1]
           d == destroy_fb(c.fb, c.id, [maps |-> maps, fbs |-> fbs, dumbs |-> dumbs])
       IN
       /\ maps' = d.maps
       /\ fbs' = d.fbs
       /\ dumbs' = d.dumbs
       /\ ops' = ops \o d.ops
    /\ i' = i + 1
    /\ UNCHANGED <<pc, keep_running, taken_crtcs, conn_list, conn, total_read,
                   ptr, remaining, stdin, mem, crtcs, exit_status,
                   parent_status, image, info>>

SpecDestroy == InitDestroy /\ [][DestroySurface]_vars

\* ------------------------------------------------------ the cleanup loop
\* The cleanup loop taken on its own, entered with the flag read as stop:
\* every connector is in the list, connected or not, each connected one with
\* the surface create_fb gave it and the snapshot the modeset step stored
\* (NULL, an idle controller or a configured one).  The device may have
\* dropped any object of a surface, so that the request releasing it is
\* refused.
TeardownOutput(k, connected, saved) ==
    [NewConnector(ConnectorId(k), connected) EXCEPT
        !.crtc_id = CrtcId(k), !.mode = "preferred", !.saved = saved,
        !.fb = [id |-> 41 + k, handle |-> k + 1, size |-> 1, data |-> k + 1]]

TeardownSaved(k) ==
    {SavedNull, SavedPtr(IdleCrtc(CrtcId(k))), SavedPtr(PriorCrtc(CrtcId(k)))}

InitTeardown ==
    /\ pc = "cleanup"
    /\ keep_running = 0
    /\ i = NumConnectors
    /\ taken_crtcs = SetBit(Bit(0), 1)
    /\ conn = 1
    /\ total_read = 0
    /\ ptr = 0
    /\ remaining = 0
    /\ stdin = <<>>
    /\ \E c0 \in BOOLEAN, c1 \in BOOLEAN,
          s0 \in TeardownSaved(0), s1 \in TeardownSaved(1) :
         conn_list = <<TeardownOutput(1, c1, s1), TeardownOutput(0, c0, s0)>>
    /\ \E d \in SUBSET Addrs, f \in SUBSET (41..(40 + NumConnectors)),
          m \in SUBSET Addrs :
         /\ dumbs = d
         /\ fbs = f
         /\ maps = m
         /\ mem = [a \in Addrs |-> IF a \in m THEN prefill(1) ELSE <<>>]
    /\ crtcs = [c \in CrtcIds |-> IdleCrtc(c)]
    /\ ops = <<>>
    /\ exit_status = <<>>
    /\ parent_status = <<0>>
    /\ image = <<>>
    /\ info = [c \in ConnIds |->
                 [InfoNone EXCEPT !.tried = TRUE, !.created = "true",
                                  !.loaded = "true"]]

SpecTeardown == InitTeardown /\ [][CleanupConnector \/ Exit]_vars

\* -------------------------------------------------------- the allocator
\* find_crtc taken on its own, as the enumeration loop calls it: once per
\* connector at most, on the encoder list the device reports for it, each
\* call starting from the mask the calls before it left.  The mask the
\* sequence starts from is any mask.  Each call is recorded with its input,
\* the mask before and the result.
InitAlloc ==
    /\ pc = "alloc"
    /\ keep_running = 1
    /\ i = 0
    /\ taken_crtcs \in Masks
    /\ conn_list = <<>>
    /\ conn = 0
    /\ total_read = 0
    /\ ptr = 0
    /\ remaining = 0
    /\ stdin = <<>>
    /\ dumbs = {}
    /\ fbs = {}
    /\ maps = {}
    /\ mem = [a \in Addrs |-> <<>>]
    /\ crtcs = [c \in CrtcIds |-> IdleCrtc(c)]
    /\ ops = <<>>
    /\ exit_status = <<>>
    /\ parent_status = <<>>
    /\ image = <<>>
    /\ info = [c \in ConnIds |-> InfoNone]

\* conn->crtc_id = find_crtc(drm_fd, res, drm_conn, &taken_crtcs);
\* if (!conn->crtc_id) conn->connected = false;
AllocOutput ==
    /\ pc = "alloc"
    /\ i < NumConnectors
    /\ \E encoders \in EncoderLists :
         LET id == ConnectorId(i)
             r == find_crtc(encoders, taken_crtcs)
         IN
         /\ taken_crtcs' = r.taken
         /\ conn_list' = <<[NewConnector(id, r.crtc_id # 0) EXCEPT
                               !.crtc_id = r.crtc_id]>> \o conn_list
         /\ ops' = ops \o <<Op("find_crtc", id,
                                [encoders |-> encoders, before |-> taken_crtcs,
                                 crtc_id |-> r.crtc_id, after |-> r.taken],
                                r.crtc_id # 0)>>
    /\ i' = i + 1
    /\ UNCHANGED <<pc, keep_running, conn, total_read, ptr, remaining, stdin,
                   dumbs, fbs, maps, mem, crtcs, exit_status, parent_status,
                   image, info>>

SpecAlloc == InitAlloc /\ [][AllocOutput]_vars

\* ================================================================= claims
Conns == {conn_list[k] : k \in 1..Len(conn_list)}
OpsOf(id) == {ops[k] : k \in {n \in 1..Len(ops) : ops[n].conn = id}}
Issued(id, name) == \E o \in OpsOf(id) : o.op = name
Accepted(id, name) == \E o \in OpsOf(id) : o.op = name /\ o.ok
Refused(id, name) == \E o \in OpsOf(id) : o.op = name /\ ~o.ok
Assigned(c) == c.crtc_id # 0 /\ c.crtc_id # UNINIT
ActivationOver == pc \in {"daemonize", "wait", "sleep", "cleanup", "done", "exited"}
                    /\ i >= NumConnectors

\* C1: no two outputs that were assigned a controller (crtc_id != 0) hold
\* the same controller id, in any state of the run.
C1_UniqueCrtc ==
    \A a, b \in 1..Len(conn_list) :
        (a # b /\ Assigned(conn_list[a]) /\ Assigned(conn_list[b]))
            => conn_list[a].crtc_id # conn_list[b].crtc_id

\* Two outputs hold a controller, and the second had to pass over the slot
\* the first one took.
C1_Witness ==
    /\ Len(conn_list) = 2
    /\ Assigned(conn_list[1])
    /\ Assigned(conn_list[2])
    /\ conn_list[2].crtc_id = CrtcId(0)
    /\ conn_list[1].crtc_id = CrtcId(1)

\* The fields of a CRTC configuration the round trip is about.
SameConfig(a, b) ==
    /\ a.buffer_id = b.buffer_id
    /\ a.x = b.x
    /\ a.y = b.y
    /\ a.mode = b.mode

HadPrior(c) ==
    /\ c.connected
    /\ c.saved.state = "ptr"
    /\ c.saved.crtc.mode_valid
    /\ c.saved.crtc.buffer_id # 0

\* C2 as stated: at DONE, every output that is still connected and whose
\* controller had a prior configuration when snapshotted has its controller
\* back at the snapshot.
C2_RoundTripAlways ==
    pc = "done" =>
        \A c \in Conns : HadPrior(c) => SameConfig(crtcs[c.crtc_id], c.saved.crtc)

\* C2 as amended: the same, for the outputs whose restoring mode-switch
\* request the device accepted.
C2_RoundTripWhenRestoreAccepted ==
    pc = "done" =>
        \A c \in Conns :
            (HadPrior(c) /\ Accepted(c.id, "RestoreCrtc"))
                => SameConfig(crtcs[c.crtc_id], c.saved.crtc)

\* A run ends with an output whose mode switch was applied over a prior
\* configuration and whose restore was accepted.
C2_Witness ==
    /\ pc = "done"
    /\ \E c \in Conns :
        /\ HadPrior(c)
        /\ Accepted(c.id, "SetCrtc")
        /\ Accepted(c.id, "RestoreCrtc")

\* The surface of c is gone: no mapping, no scanout object, no raw memory.
Released(c) ==
    /\ Issued(c.id, "munmap")
    /\ Accepted(c.id, "RmFB")
    /\ Accepted(c.id, "DESTROY_DUMB")

\* C3: at DONE every surface that create_fb created has been released,
\* whichever later step failed for its output.
C3_NoLeakAtDone ==
    pc = "done" =>
        \A c \in Conns : info[c.id].created = "true" => Released(c)

\* C4: loading never writes outside the mapping: the mapping keeps its
\* length sizeBytes, at most sizeBytes bytes are written, the write position
\* stays inside it; and after a load from a source of exactly sizeBytes
\* bytes the mapping equals the source.
C4_LoadStaysInBounds ==
    /\ \A c \in Conns :
        c.fb.data \in maps =>
            /\ Len(mem[c.fb.data]) = c.fb.size
            /\ (info[c.id].loaded = "true" /\ Len(info[c.id].source) = c.fb.size)
                   => mem[c.fb.data] = info[c.id].source
    /\ pc = "read" =>
        /\ total_read >= 0
        /\ total_read <= Cur.fb.size
        /\ ptr = total_read
        /\ ptr + remaining = Cur.fb.size

\* A two-byte surface was loaded from a two-byte source.
C4_Witness ==
    \E c \in Conns :
        /\ c.fb.data \in maps
        /\ c.fb.size = 2
        /\ info[c.id].loaded = "true"
        /\ Len(info[c.id].source) = 2
        /\ mem[c.fb.data] = <<ImageByte(1), ImageByte(2)>>

\* C5: an output with no compatible free controller at its allocation
\* attempt is marked connected=false, no request is ever issued for it, the
\* loop goes on to the next output, and a run that shuts down exits 0.
C5_StarvedOutputSkipped ==
    \A j \in 0..(NumConnectors - 1) :
        info[ConnectorId(j)].starved =>
            /\ \E c \in Conns : c.id = ConnectorId(j) /\ ~c.connected /\ c.crtc_id = 0
            /\ OpsOf(ConnectorId(j)) = {}
            /\ i > j
            /\ ~(pc \in {"create_fb", "load", "read", "modeset"}
                   /\ Cur.id = ConnectorId(j))
            /\ pc = "done" => exit_status = <<0>>

\* The first output found every compatible slot taken or none compatible,
\* the second was activated after it, and the run shut down.
C5_Witness ==
    /\ pc = "done"
    /\ info[ConnectorId(0)].starved
    /\ Accepted(ConnectorId(1), "SetCrtc")
    /\ Accepted(ConnectorId(1), "RestoreCrtc")

Fill(n) == [k \in 1..n |-> FILL]

ShortLoad(c) ==
    /\ info[c.id].loaded = "true"
    /\ Len(info[c.id].source) < c.fb.size

\* C7: after a load from a source shorter than sizeBytes the mapping holds
\* the source bytes followed by 0xff, the output stays connected and the mode
\* switch is attempted for it.
C7_ShortSourceKeepsFill ==
    \A c \in Conns :
        ShortLoad(c) =>
            /\ c.fb.data \in maps =>
                 mem[c.fb.data] =
                     info[c.id].source \o Fill(c.fb.size - Len(info[c.id].source))
            /\ c.connected
            /\ Issued(c.id, "SetCrtc") \/ (pc = "modeset" /\ Cur.id = c.id)

\* A two-byte surface got one byte from the source and the mode switch was
\* issued for it.
C7_Witness ==
    \E c \in Conns :
        /\ ShortLoad(c)
        /\ c.fb.data \in maps
        /\ mem[c.fb.data] = <<ImageByte(1), FILL>>
        /\ Issued(c.id, "SetCrtc")

StartupFailed(names) == \E o \in OpsOf(0) : o.op \in names /\ ~o.ok

\* C8 as stated: exit status 1 exactly when device open or resource
\* enumeration failed; 0 on every run that shuts down after the trigger.
C8_ExitStatusOpenOrResources ==
    /\ exit_status = <<1>> <=> StartupFailed({"open", "GetResources"})
    /\ pc = "done" => exit_status = <<0>>

\* C8 as amended: exit status 1 exactly when device open, resource
\* enumeration or the fork of daemonize failed; 0 on every run that shuts
\* down after the trigger, whatever failed for its outputs.
C8_ExitStatusStartupOnly ==
    /\ exit_status = <<1>> <=> StartupFailed({"open", "GetResources", "fork"})
    /\ pc = "done" => exit_status = <<0>>
    /\ exit_status \in {<<>>, <<0>>, <<1>>}
    /\ exit_status = <<0>> => pc = "done"

\* A run shut down with status 0 although buffer creation failed for one
\* output and the image load failed for another.
C8_Witness ==
    /\ pc = "done"
    /\ exit_status = <<0>>
    /\ \E c \in Conns : info[c.id].created = "false"
    /\ \E c \in Conns : info[c.id].loaded = "false"

\* C9: when two or more outputs were found connected and all activated,
\* after the activation phase each one's mapping holds the first
\* min(sourceLength, sizeBytes) bytes of the image.
C9_EveryOutputPainted ==
    (/\ pc = "daemonize"
     /\ Len(conn_list) >= 2
     /\ \A c \in Conns : c.connected /\ Accepted(c.id, "SetCrtc")) =>
        \A c \in Conns :
            \A k \in 1..Min2(Len(image), c.fb.size) : mem[c.fb.data][k] = image[k]

\* C10: when step 3 of create fails (the map request or mmap), create
\* reports failure, the scanout object and the raw memory are released, and
\* the output is marked connected=false.
C10_MapFailureReleases ==
    \A c \in Conns :
        (Refused(c.id, "MAP_DUMB") \/ Refused(c.id, "mmap")) =>
            /\ info[c.id].created = "false"
            /\ Accepted(c.id, "RmFB")
            /\ Accepted(c.id, "DESTROY_DUMB")
            /\ ~c.connected


BeforeCleanup == pc \in {"enumerate", "create_fb", "load", "read", "modeset",
                         "daemonize", "wait", "sleep"}

SurfaceLive(c) ==
    /\ c.fb.data \in maps
    /\ c.fb.id \in fbs
    /\ c.fb.handle \in dumbs

RestoredFromSnapshot(c) ==
    \E o \in OpsOf(c.id) :
        o.op = "RestoreCrtc" /\ o.arg = restore_request(c.saved.crtc)

\* C11: an output whose mode switch was issued, refused or not, stays
\* connected with its controller, surface and snapshot; at DONE its surface
\* has been destroyed and, when a snapshot was captured, the restore request
\* built from the snapshot has been issued.
C11_FailedModesetKeepsOutput ==
    \A c \in Conns :
        Issued(c.id, "SetCrtc") =>
            /\ c.connected
            /\ Assigned(c)
            /\ TestBit(taken_crtcs, c.crtc_id - CrtcId(0))
            /\ c.saved.state \in {"null", "ptr"}
            /\ BeforeCleanup => SurfaceLive(c)
            /\ pc = "done" =>
                 /\ Released(c)
                 /\ ~SurfaceLive(c)
                 /\ c.saved.state = "ptr" <=> Issued(c.id, "RestoreCrtc")
                 /\ c.saved.state = "ptr" => RestoredFromSnapshot(c)

\* A run ended with an output whose mode switch was refused, torn down and
\* restored from its snapshot.
C11_Witness ==
    /\ pc = "done"
    /\ \E c \in Conns :
        /\ Refused(c.id, "SetCrtc")
        /\ HadPrior(c)
        /\ Released(c)
        /\ Accepted(c.id, "RestoreCrtc")


\* An output whose record was linked and which was dropped before find_crtc:
\* its connector was not connected or reported no mode.
DroppedEarly(c) == ~info[c.id].tried

TakenSlots == {s \in Slots : TestBit(taken_crtcs, s)}

\* C12: an output whose connector is not connected or reports zero modes is
\* in the output list with connected=false, holds no controller (the taken
\* slots are exactly those of the outputs that were assigned one), has no
\* buffer and no snapshot, and no device request at all names it; an output
\* that is connected=false is never the target of a mode switch, a restore
\* or an unmap.
C12_DroppedOutputUntouched ==
    /\ \A c \in Conns :
          DroppedEarly(c) =>
              /\ ~c.connected
              /\ c.crtc_id = UNINIT
              /\ c.fb = FbUninit
              /\ c.saved = SavedUninit
              /\ OpsOf(c.id) = {}
    /\ TakenSlots = {c.crtc_id - CrtcId(0) : c \in {d \in Conns : Assigned(d)}}
    /\ \A c \in Conns :
          ~c.connected =>
              /\ ~Issued(c.id, "GetCrtc")
              /\ ~Issued(c.id, "SetCrtc")
              /\ ~Issued(c.id, "RestoreCrtc")
              /\ ~Issued(c.id, "munmap")

\* A run ended with a dropped output in the list next to an output that was
\* activated and restored.
C12_Witness ==
    /\ pc = "done"
    /\ \E c, d \in Conns :
        /\ DroppedEarly(c)
        /\ ~c.connected
        /\ d.connected
        /\ Issued(d.id, "RestoreCrtc")


OtherThanFlag == <<pc, i, taken_crtcs, conn_list, conn, total_read, ptr,
                   remaining, stdin, dumbs, fbs, maps, mem, crtcs, ops,
                   exit_status, parent_status, image, info>>

Restoring == pc \in {"cleanup", "done"}

\* A request of the shutdown teardown: an unmap or a restore, or the removal
\* of the surface of an output that is still connected.
TeardownIssued ==
    \/ \E k \in 1..Len(ops) : ops[k].op \in {"munmap", "RestoreCrtc"}
    \/ \E c \in Conns :
          c.connected /\ (Issued(c.id, "RmFB") \/ Issued(c.id, "DESTROY_DUMB"))

FlagStep ==
    /\ keep_running = 0 => keep_running' = 0
    /\ keep_running' # keep_running => UNCHANGED OtherThanFlag
    /\ (~Restoring /\ Restoring') => (pc = "wait" /\ keep_running = 0)
    /\ Restoring => Restoring'

\* C13: the termination flag only goes from running to stop; a step that
\* writes the flag changes nothing else; main enters the teardown only from
\* the wait loop with the flag read as stop and never leaves it again, so
\* the move from ACTIVE to RESTORING happens at most once; and no teardown
\* or restore request is issued unless main is in the teardown with the flag
\* at stop.
C13_ShutdownFlagSafety ==
    /\ [](TeardownIssued => (Restoring /\ keep_running = 0))
    /\ [](Restoring => keep_running = 0)
    /\ [][FlagStep]_vars

\* A run that was asked to stop, tore a surface down and ended.
C13_Witness ==
    /\ pc = "done"
    /\ keep_running = 0
    /\ \E c \in Conns : Released(c) /\ Issued(c.id, "RestoreCrtc")


\* C14: in the record of requests every unmap is followed at once by the
\* scanout-object removal and the raw-memory destruction of the same output,
\* whatever each of them returned, and every restore comes right after the
\* three of its own output; an output the loop has passed and that was
\* connected has had all three issued, and the restore too when it holds a
\* snapshot.
C14_TeardownOrder ==
    /\ \A k \in 1..Len(ops) :
          /\ ops[k].op = "munmap" =>
                /\ k + 2 <= Len(ops)
                /\ ops[k + 1].op = "RmFB"
                /\ ops[k + 1].conn = ops[k].conn
                /\ ops[k + 2].op = "DESTROY_DUMB"
                /\ ops[k + 2].conn = ops[k].conn
          /\ ops[k].op = "RestoreCrtc" =>
                /\ k > 3
                /\ ops[k - 1].op = "DESTROY_DUMB"
                /\ ops[k - 1].conn = ops[k].conn
                /\ ops[k - 3].op = "munmap"
                /\ ops[k - 3].conn = ops[k].conn
    /\ pc \in {"cleanup", "done"} =>
          \A j \in 1..Len(conn_list) :
              (j < conn /\ conn_list[j].connected) =>
                  /\ Issued(conn_list[j].id, "munmap")
                  /\ Issued(conn_list[j].id, "RmFB")
                  /\ Issued(conn_list[j].id, "DESTROY_DUMB")
                  /\ conn_list[j].saved.state = "ptr"
                        => Issued(conn_list[j].id, "RestoreCrtc")

\* The device refused the scanout-object removal of an output, and the
\* raw-memory destruction and the restore of that output were issued all
\* the same.
C14_Witness ==
    /\ pc = "done"
    /\ \E c \in Conns :
        /\ Refused(c.id, "RmFB")
        /\ Issued(c.id, "DESTROY_DUMB")
        /\ Issued(c.id, "RestoreCrtc")


\* The free slots an encoder can drive; a failed drmModeGetEncoder has none.
UsableSlots(enc, taken) ==
    {s \in Slots : ~enc.null /\ TestBit(enc.possible_crtcs, s) /\ ~TestBit(taken, s)}

ServingEncoders(encoders, taken) ==
    {e \in 1..Len(encoders) : UsableSlots(encoders[e], taken) # {}}

BitsOf(mask) == {s \in Slots : TestBit(mask, s)}

FirstFit(call) ==
    LET serving == ServingEncoders(call.encoders, call.before)
    IN  IF serving = {}
        THEN /\ call.crtc_id = 0
             /\ call.after = call.before
        ELSE LET s == Min(UsableSlots(call.encoders[Min(serving)], call.before))
             IN  /\ call.crtc_id = CrtcId(s)
                 /\ call.after \in Masks
                 /\ BitsOf(call.after) = BitsOf(call.before) \cup {s}

\* C15: every call of the allocator, for every mask and encoder list, returns
\* the controller at the lowest free slot of the first encoder (in list
\* order) that has a compatible free slot and marks exactly that slot taken;
\* when no encoder has one it returns none and leaves the mask as it was.
C15_FirstFit ==
    \A k \in 1..Len(ops) : ops[k].op = "find_crtc" => FirstFit(ops[k].arg)

\* The second output is starved, the mask untouched, although both outputs
\* have a slot each when the first one takes its other compatible slot.
C15_Witness ==
    /\ Len(ops) = 2
    /\ ops[1].arg.crtc_id # 0
    /\ ops[2].arg.crtc_id = 0
    /\ ops[2].arg.after = ops[2].arg.before
    /\ \E s1, s2 \in Slots :
         /\ s1 # s2
         /\ \E e \in 1..Len(ops[1].arg.encoders) :
               s1 \in UsableSlots(ops[1].arg.encoders[e], ops[1].arg.before)
         /\ \E e \in 1..Len(ops[2].arg.encoders) :
               s2 \in UsableSlots(ops[2].arg.encoders[e], ops[1].arg.before)


\* The snapshot of the output shows an idle controller: no scanout buffer
\* and no valid mode.
WasIdle(c) ==
    /\ c.connected
    /\ c.saved.state = "ptr"
    /\ ~c.saved.crtc.mode_valid
    /\ c.saved.crtc.buffer_id = 0

\* C16: for an activated output whose controller was idle when snapshotted,
\* no mode-switch request is issued to that controller during the teardown.
C16_IdleControllerLeftAlone ==
    \A c \in Conns : WasIdle(c) => ~Issued(c.id, "RestoreCrtc")


\* A step of main: any step but the delivery of a signal.
MainStep ==
    \/ InstallHandlers
    \/ OpenDevice
    \/ GetResources
    \/ EnumerateConnector
    \/ CreateFb
    \/ LoadBegin
    \/ LoadRead
    \/ Modeset
    \/ EndEnumeration
    \/ daemonize
    \/ WaitLoop
    \/ Sleep
    \/ CleanupConnector
    \/ Exit

TerminationRequested == pc # "start" /\ keep_running = 0

\* C17: once a termination request has arrived, in a run whose startup
\* (device open, resource enumeration, fork) did not fail, main can always
\* take a further step until it is at DONE with exit status 0; it leaves the
\* enumeration only after every connector was processed, and at DONE every
\* connected output has been torn down and, with a snapshot, restored.
C17_TerminationNeverLost ==
    (TerminationRequested /\ ~StartupFailed({"open", "GetResources", "fork"})) =>
        /\ (pc = "done" /\ exit_status = <<0>>) \/ ENABLED MainStep
        /\ pc \in {"daemonize", "wait", "sleep", "cleanup", "done"}
              => i = NumConnectors
        /\ pc = "done" =>
              \A c \in Conns :
                  c.connected =>
                      /\ Issued(c.id, "munmap")
                      /\ c.saved.state = "ptr" => Issued(c.id, "RestoreCrtc")


AfterActivation == pc \in {"daemonize", "wait", "sleep", "cleanup", "done"}

FieldsSet(c) ==
    /\ Assigned(c)
    /\ c.crtc_id \in CrtcIds
    /\ c.mode # "uninit"
    /\ c.fb.id # UNINIT
    /\ c.fb.handle # UNINIT
    /\ c.fb.size # UNINIT
    /\ c.fb.data # UNINIT
    /\ c.saved.state \in {"null", "ptr"}

\* C18: after the activation phase every connected output holds a controller
\* whose slot is marked taken and has every field of its surface and its
\* snapshot field written; until the teardown starts its scanout object,
\* raw memory and mapping are live; and no unmap, removal or destruction is
\* issued with a value that was never set, nor a restore for an output whose
\* snapshot is not a captured configuration.
C18_ConnectedOutputsInitialised ==
    /\ AfterActivation =>
          \A c \in Conns :
              c.connected =>
                  /\ FieldsSet(c)
                  /\ TestBit(taken_crtcs, c.crtc_id - CrtcId(0))
                  /\ info[c.id].created = "true"
                  /\ pc # "cleanup" /\ pc # "done" => SurfaceLive(c)
    /\ \A k \in 1..Len(ops) :
          /\ ops[k].op \in {"munmap", "RmFB", "DESTROY_DUMB"}
                => ops[k].arg # UNINIT /\ ops[k].arg # MAP_FAILED
          /\ ops[k].op = "RestoreCrtc"
                => \E c \in Conns :
                      /\ c.id = ops[k].conn
                      /\ c.saved.state = "ptr"
                      /\ ops[k].arg.crtc_id = c.crtc_id

\* The activation is over with one output connected and fully set up and
\* another one dropped after its image load failed, and the teardown has run.
C18_Witness ==
    /\ pc = "done"
    /\ \E c, d \in Conns :
        /\ c.connected
        /\ FieldsSet(c)
        /\ Released(c)
        /\ ~d.connected
        /\ info[d.id].loaded = "false"


ReleaseOps == {"munmap", "RmFB", "DESTROY_DUMB"}

TimesIssued(id, name) ==
    Cardinality({k \in 1..Len(ops) : ops[k].conn = id /\ ops[k].op = name})

\* C19: for every output each of the three release requests is issued at
\* most once in a run, and every release request names an object that is
\* live when it is issued (the device refuses none as unknown).
C19_NoDoubleRelease ==
    /\ \A id \in ConnIds : \A name \in ReleaseOps : TimesIssued(id, name) <= 1
    /\ \A k \in 1..Len(ops) : ops[k].op \in ReleaseOps => ops[k].ok

\* A run ended in which one output's surface was released on the failure
\* path of create_fb and another output's surface by the shutdown loop.
C19_Witness ==
    /\ pc = "done"
    /\ \E c, d \in Conns :
        /\ ~c.connected
        /\ info[c.id].created = "false"
        /\ Issued(c.id, "RmFB")
        /\ Issued(c.id, "DESTROY_DUMB")
        /\ d.connected
        /\ Released(d)


MaskStep == \A s \in Slots : TestBit(taken_crtcs, s) => TestBit(taken_crtcs', s)

\* C20: no step of the program clears a bit of the allocation mask; the slot
\* of every output that was assigned a controller stays marked taken, also
\* after the output was marked connected=false; and no later output is
\* assigned the controller of such an output.
C20_MaskMonotonic ==
    /\ [][MaskStep]_vars
    /\ [](\A c \in Conns :
             Assigned(c) => TestBit(taken_crtcs, c.crtc_id - CrtcId(0)))
    /\ [](\A a, b \in 1..Len(conn_list) :
             (a < b /\ Assigned(conn_list[b]) /\ ~conn_list[b].connected)
                 => conn_list[a].crtc_id # conn_list[b].crtc_id)

\* The first output took the lowest slot and then failed; the second output,
\* compatible with that slot, was given the next one.
C20_Witness ==
    /\ Len(conn_list) = 2
    /\ conn_list[2].crtc_id = CrtcId(0)
    /\ ~conn_list[2].connected
    /\ info[conn_list[2].id].created = "false" \/ info[conn_list[2].id].loaded = "false"
    /\ conn_list[1].crtc_id = CrtcId(1)
    /\ TestBit(taken_crtcs, 0)
    /\ TestBit(taken_crtcs, 1)

====
